---- MODULE Spec2Model ----
(***************************************************************************)
(* A model of the styx overlay node: the control-frame codec               *)
(* (src/control.rs), the public key -> IPv6 address derivation             *)
(* (src/crypto/ed25519.rs, src/peer.rs) and the connection classifier of   *)
(* the core (src/core.rs).  Each part has its own specification over the   *)
(* shared variables: SpecCodec, SpecAddress and Spec (the core).           *)
(***************************************************************************)
EXTENDS Integers, Sequences, FiniteSets, TLC

VARIABLES
    \* ---- control codec (src/control.rs) ----
    header,     \* ControlCodec.header: None or a FrameHeader
    src,        \* the BytesMut handed to decode
    dst,        \* the BytesMut written by encode, bytes not yet delivered to src
    frames,     \* history: the frames written to dst, in order
    results,    \* history: the decode calls that returned a frame or an error, in order,
                \* each with the state it was called in and the bytes consumed so far
    fed,        \* history: number of bytes moved from dst to src so far
    polled,     \* history: decode has been called since the last delivery
    \* ---- address derivation (src/crypto/ed25519.rs) ----
    key,            \* the 32 bytes of a PublicKey
    overflowChecks, \* the build: TRUE when integer overflow panics (debug), FALSE when it wraps
    addr,           \* what PublicKey::address came to: NotCalled, Panicked or Returned(16 bytes)
    peer_addr,      \* what Peer::address came to on the same key (src/peer.rs)
    \* ---- core (src/core.rs) ----
    toAccept,       \* connections remotes will still open
    accepted,       \* connections the listener has accepted: they are 1..accepted
    remote,         \* per connection: what its remote sends on the stream
    hs,             \* per connection: where its handshake task is
    stream,         \* per connection: the bytes the node has read from and written to its stream
    queue,          \* the mpsc channel's buffer (the intake queue)
    waiters,        \* the messages of the tasks suspended in tx.send, in the order they began to wait
    granted,        \* the messages of the tasks that were handed a slot and woken, not yet polled,
                    \* in the order in which the slots were handed out
    handler,        \* per connection: the handler task spawned for it
    active_peers,       \* Core.active_peers: the keys registered
    active_data_peers,  \* Core.active_data_peers: the connections registered
    enqLog,         \* history: the connections enqueued, in order
    spawnLog        \* history: the handlers the core task spawned, in order: class, connection, key

codecVars == <<header, src, dst, frames, results, fed, polled>>
addressVars == <<key, overflowChecks, addr, peer_addr>>
coreVars == <<toAccept, accepted, remote, hs, stream, queue, waiters, granted, handler, active_peers,
              active_data_peers, enqLog, spawnLog>>

vars == <<header, src, dst, frames, results, fed, polled, key, overflowChecks, addr,
          toAccept, accepted, remote, hs, stream, queue, waiters, granted, handler, active_peers,
          active_data_peers, enqLog, spawnLog>>

(***************************************************************************)
(* Bounds of the model.                                                    *)
(***************************************************************************)
\* Total number of bytes ever written to the wire in one behaviour.
MaxWire == 16
\* Largest declared payload length of a hand-written (raw) frame.
MaxRawLen == 5
\* Connections opened by remotes in one behaviour.
MaxConns == 2
\* How far the runtime lets a spawned handler task lag: it polls a handler
\* before the core task has spawned MaxHandlerLag more.
MaxHandlerLag == 1

\* A u32 is held as its two 16-bit halves, hi * 2^16 + lo: the checker's
\* integers end at 2^31 - 1.
U32(hi, lo) == [hi |-> hi, lo |-> lo]

\* Ping ids handed to encode: the test's id 1, 0x01020304 (four distinct
\* bytes) and 0xFFFFFFFF.
Ids == {U32(0, 1), U32(258, 772), U32(65535, 65535)}
\* The id whose big-endian bytes start the payload of a raw frame: 0,0,0,4,
\* which reads as a ping header when a decoder loses its place.
RawIds == {U32(0, 4)}
\* Version and type bytes of raw frames.
Versions == {0, 1}
Types == {0, 1}

(***************************************************************************)
(* src/crypto/ed25519.rs: PublicKey::address.                              *)
(***************************************************************************)
PUBLIC_KEY_LENGTH == 32
IPV6_OCTETS == 16
PREFIX == <<2>>

\* What a call of address comes to: not made yet, a panic, or the 16 bytes of
\* the Ipv6Addr returned.
NotCalled == [status |-> "NotCalled", bytes |-> <<>>]
Panicked == [status |-> "Panicked", bytes |-> <<>>]
Returned(bytes) == [status |-> "Returned", bytes |-> bytes]

Pow2(n) == <<1, 2, 4, 8, 16, 32, 64, 128>>[n + 1]

\* Lines 43-46: working_buffer[i] = !key[i].
WorkingBuffer(k) == [i \in 1..Len(k) |-> 255 - k[i]]

\* Line 59: (working_buffer[idx / 8] & (0x80 >> (idx % 8))) >> (7 - idx % 8).
BitAt(wb, idx) == (wb[(idx \div 8) + 1] \div Pow2(7 - (idx % 8))) % 2

\* Line 61: ones += 1 on a u8.  At 255 the addition overflows: a panic in a
\* build with overflow checks, a wrap to 0 in one without.
OnesSaturating(st, checks) ==
    IF st.ones = 255 THEN st ELSE [st EXCEPT !.ones = @ + 1]
OnesIncrement(st, checks) ==
    IF st.ones = 255
    THEN IF checks THEN [st EXCEPT !.panic = TRUE] ELSE [st EXCEPT !.ones = 0]
    ELSE [st EXCEPT !.ones = @ + 1]

\* Lines 68-74: shift the bit into bits (a u8: the top bit falls off) and store
\* every eighth one in temp.
PackBit(st, bit) ==
    LET b == ((st.bits * 2) % 256) + bit IN
    IF st.nbits + 1 = 8
    THEN [st EXCEPT !.bits = b, !.nbits = 0,
                    !.temp[st.temp_idx + 1] = b, !.temp_idx = @ + 1]
    ELSE [st EXCEPT !.bits = b, !.nbits = @ + 1]

\* Lines 59-74: one iteration of the loop over the bits.
AddressStep(wb, idx, st, checks) ==
    LET bit == BitAt(wb, idx) IN
    IF ~st.done /\ bit # 0 THEN OnesIncrement(st, checks)
    ELSE IF ~st.done /\ bit = 0 THEN [st EXCEPT !.done = TRUE]
    ELSE PackBit(st, bit)

\* Lines 58-75: the loop, the iterations for idx = lo, lo + 1, ..., hi - 1 in
\* this order; a panic ends it (the range is halved to keep the evaluation
\* shallow).
RECURSIVE AddressLoop(_, _, _, _, _)
AddressLoop(wb, lo, hi, st, checks) ==
    IF hi <= lo THEN st
    ELSE IF hi = lo + 1 THEN AddressStep(wb, lo, st, checks)
    ELSE LET mid == (lo + hi) \div 2
             half == AddressLoop(wb, lo, mid, st, checks)
         IN  IF half.panic THEN half ELSE AddressLoop(wb, mid, hi, half, checks)

\* PublicKey::address: Panicked, or the 16 bytes of the Ipv6Addr.
address(k, checks) ==
    LET st0 == [done |-> FALSE, ones |-> 0, bits |-> 0, nbits |-> 0,
                temp |-> [i \in 1..PUBLIC_KEY_LENGTH |-> 0], temp_idx |-> 0,
                panic |-> FALSE]
        st == AddressLoop(WorkingBuffer(k), 0, Len(k) * 8, st0, checks)
    IN  IF st.panic THEN Panicked
        ELSE Returned(PREFIX \o <<st.ones>>
                             \o SubSeq(st.temp, 1, IPV6_OCTETS - (Len(PREFIX) + 1)))

(***************************************************************************)
(* src/peer.rs: Peer::address, the second copy of the derivation, with its *)
(* own PREFIX and IPV6_OCTETS.                                             *)
(***************************************************************************)
PEER_PREFIX == <<2>>
PEER_IPV6_OCTETS == 16

\* Lines 26-29: working_buffer[i] = !public_key[i].
PeerWorkingBuffer(k) == [i \in 1..Len(k) |-> 255 - k[i]]

\* Line 42: (working_buffer[idx / 8] & (0x80 >> (idx % 8))) >> (7 - idx % 8).
PeerBitAtLsb(wb, idx) == (wb[(idx \div 8) + 1] \div Pow2(idx % 8)) % 2
PeerBitAt(wb, idx) == (wb[(idx \div 8) + 1] \div Pow2(7 - (idx % 8))) % 2

\* Line 44: ones += 1 on a u8, a panic or a wrap at 255 as the build has it.
PeerOnesIncrement(st, checks) ==
    IF st.ones = 255
    THEN IF checks THEN [st EXCEPT !.panic = TRUE] ELSE [st EXCEPT !.ones = 0]
    ELSE [st EXCEPT !.ones = @ + 1]

\* Lines 51-57: bits = (bits << 1) | bit on a u8; every eighth bit stores
\* bits in temp.
PeerPackBit(st, bit) ==
    LET b == ((st.bits * 2) % 256) + bit IN
    IF st.nbits + 1 = 8
    THEN [st EXCEPT !.bits = b, !.nbits = 0,
                    !.temp[st.temp_idx + 1] = b, !.temp_idx = @ + 1]
    ELSE [st EXCEPT !.bits = b, !.nbits = @ + 1]

\* Lines 42-57: one iteration of the loop.
PeerAddressStep(wb, idx, st, checks) ==
    LET bit == PeerBitAt(wb, idx) IN
    IF ~st.done /\ bit # 0 THEN PeerOnesIncrement(st, checks)
    ELSE IF ~st.done /\ bit = 0 THEN [st EXCEPT !.done = TRUE]
    ELSE PeerPackBit(st, bit)

\* Lines 41-58: the iterations for idx = lo, ..., hi - 1 in this order; a
\* panic ends the loop (the range is halved to keep the evaluation shallow).
RECURSIVE PeerAddressLoop(_, _, _, _, _)
PeerAddressLoop(wb, lo, hi, st, checks) ==
    IF hi <= lo THEN st
    ELSE IF hi = lo + 1 THEN PeerAddressStep(wb, lo, st, checks)
    ELSE LET mid == (lo + hi) \div 2
             half == PeerAddressLoop(wb, lo, mid, st, checks)
         IN  IF half.panic THEN half ELSE PeerAddressLoop(wb, mid, hi, half, checks)

\* Peer::address: Panicked, or the 16 bytes of the Ipv6Addr.
peer_address(k, checks) ==
    LET st0 == [done |-> FALSE, ones |-> 0, bits |-> 0, nbits |-> 0,
                temp |-> [i \in 1..PUBLIC_KEY_LENGTH |-> 0], temp_idx |-> 0,
                panic |-> FALSE]
        st == PeerAddressLoop(PeerWorkingBuffer(k), 0, Len(k) * 8, st0, checks)
    IN  IF st.panic THEN Panicked
        ELSE Returned(PEER_PREFIX \o <<st.ones>>
                         \o SubSeq(st.temp, 1, PEER_IPV6_OCTETS - (Len(PEER_PREFIX) + 1)))

(***************************************************************************)
(* Keys the derivation is run on: the key of the tests, and for every      *)
(* z in 0..256 and every tail byte the key that starts with z zero bits,   *)
(* then has a one bit, then repeats the bits of the tail byte.  z = 256 is *)
(* the all-zero key, the encoding of the curve point with y = 0.           *)
(***************************************************************************)
TestKey == <<189, 186, 207, 216, 34, 64, 222, 61, 205, 18, 57, 36, 203, 181, 82, 86,
             251, 141, 171, 8, 170, 152, 227, 5, 82, 138, 184, 79, 65, 158, 110, 25>>
TestAddress == <<2, 0, 132, 138, 96, 79, 187, 126, 67, 132, 101, 219, 141, 182, 104, 149>>

Tails == {0, 165, 255}

ZeroRunKey(z, tail) ==
    [i \in 1..PUBLIC_KEY_LENGTH |->
        IF i <= z \div 8 THEN 0
        ELSE IF i = (z \div 8) + 1 THEN Pow2(7 - (z % 8)) + (tail % Pow2(7 - (z % 8)))
        ELSE tail]

Keys == {TestKey} \cup {ZeroRunKey(z, t) : z \in 0..(PUBLIC_KEY_LENGTH * 8), t \in Tails}

IdleAddress ==
    /\ key = TestKey
    /\ overflowChecks = TRUE
    /\ addr = NotCalled
    /\ peer_addr = NotCalled

(***************************************************************************)
(* src/core.rs: the listener, the handshake tasks, the intake queue and    *)
(* the core task.                                                          *)
(***************************************************************************)
\* mpsc::channel(10)
QUEUE_CAP == 10

\* 0x43_54_52_4C and 0x44_41_54_41 as u32 halves.
CONTROL_MAGIC == [hi |-> 17236, lo |-> 21068]
DATA_MAGIC == [hi |-> 17473, lo |-> 21569]

\* AsyncReadExt::read_u32: the four bytes read as a big-endian u32.
read_u32_le(b) == [hi |-> b[4] * 256 + b[3], lo |-> b[2] * 256 + b[1]]
read_u32(b) == [hi |-> b[1] * 256 + b[2], lo |-> b[3] * 256 + b[4]]

Conns == 1..(QUEUE_CAP + MaxConns)

\* What a remote does with its stream: the key it sends (a name for the 32
\* bytes, and whether PublicKey::from_bytes accepts them), the four bytes it
\* sends after the key, how many of these 36 bytes it sends in all, and whether
\* it then closes the stream or leaves it open and silent.
Remote(k, valid, magic, sent, closed) ==
    [key |-> k, valid |-> valid, magic |-> magic, sent |-> sent, closed |-> closed]

NoRemote == Remote("none", FALSE, <<0, 0, 0, 0>>, 0, FALSE)

CtrlBytes == <<67, 84, 82, 76>>
DataBytes == <<68, 65, 84, 65>>

Remotes ==
    { Remote("K1", TRUE, CtrlBytes, 36, FALSE),         \* a control connection
      Remote("K2", TRUE, DataBytes, 36, FALSE),         \* a data connection
      Remote("K1", TRUE, <<76, 82, 84, 67>>, 36, FALSE),  \* CTRL in little-endian order
      Remote("KX", FALSE, CtrlBytes, 36, FALSE),        \* 32 bytes that are no public key
      Remote("K1", TRUE, CtrlBytes, 35, TRUE),          \* closed inside the magic
      Remote("K2", TRUE, DataBytes, 31, TRUE),          \* closed inside the key
      Remote("K2", TRUE, DataBytes, 34, FALSE),         \* silent inside the magic
      Remote("K1", TRUE, CtrlBytes, 0, FALSE) }         \* silent from the start

\* Connection::Control(con, pk) / Connection::Data(con, pk)
Connection(class, con, pk) == [class |-> class, con |-> con, pk |-> pk]

\* Line 108: con.read_exact(&mut buffer) returns once 32 bytes have arrived (Ok)
\* or the stream has ended before that (Err); until then the task is suspended.
ReadExactReady(r) == r.sent >= PUBLIC_KEY_LENGTH \/ r.closed
ReadExactOk(r) == r.sent >= PUBLIC_KEY_LENGTH

\* Line 122: con.read_u32() likewise, for the 4 bytes after the key.
ReadU32ReadyAlways(r) == TRUE
ReadU32Ready(r) == r.sent >= PUBLIC_KEY_LENGTH + 4 \/ r.closed
ReadU32OkAlways(r) == TRUE
ReadU32Ok(r) == r.sent >= PUBLIC_KEY_LENGTH + 4

\* What read_exact and read_u32 have taken off the stream when they return: the
\* bytes asked for, or on an early end of the stream those that had arrived.
BytesRead(r, upTo) == IF r.sent >= upTo THEN upTo ELSE r.sent

\* Lines 112-121: whether PublicKey::from_bytes returns Ok for the 32 bytes.
FromBytesOkAlways(r) == TRUE
FromBytesOk(r) == r.valid

\* Lines 106-141: the handshake task owns con, remote and a clone of tx; it
\* has no handle on the Core, so a registry is after its step what it was before.
RegistryAfterHandshakeInsert(registry, entry) == registry \cup {entry}
RegistryAfterHandshake(registry, entry) == registry

\* Lines 81-88: the handler spawned for a received connection: the control
\* handler in the arm Connection::Control, the data handler in Connection::Data.
HandlerClassControl(msg) == "Control"
HandlerClass(msg) == msg.class

\* Lines 130-137: the match on the magic: the class of the connection, or
\* "None" for the arm that returns.
MatchMagic(magic) ==
    IF magic = CONTROL_MAGIC THEN "Control"
    ELSE IF magic = DATA_MAGIC THEN "Data"
    ELSE "None"

\* The bounded channel counts QUEUE_CAP slots: one per message in the buffer
\* and one per sender that has been handed a slot and has not yet written its
\* message. Permits is the number of slots nobody holds.
Permits(q, g) == QUEUE_CAP - Len(q) - Len(g)

\* Receiver::recv: the oldest message of the buffer.
RecvNewest(q) == q[Len(q)]
Recv(q) == Head(q)
AfterRecv(q) == Tail(q)

\* tokio::spawn of a handler, within the bound on the runtime's lag.
MaySpawn ==
    \A i \in 1..(Len(spawnLog) + 1 - MaxHandlerLag) : handler[spawnLog[i].con] = "panicked"

IdleCore ==
    /\ toAccept = 0
    /\ accepted = 0
    /\ remote = [c \in Conns |-> NoRemote]
    /\ hs = [c \in Conns |-> "none"]
    /\ stream = [c \in Conns |-> [read |-> 0, written |-> 0]]
    /\ queue = <<>>
    /\ waiters = <<>>
    /\ granted = <<>>
    /\ handler = [c \in Conns |-> "none"]
    /\ active_peers = {}
    /\ active_data_peers = {}
    /\ enqLog = <<>>
    /\ spawnLog = <<>>

(***************************************************************************)
(* src/control.rs: constants and byte-level helpers of bytes::Buf/BufMut.  *)
(***************************************************************************)
HEADER_WIRE_SIZE == 4
PROTO_VERSION == 0
TYPE_PING == 0
MINIMAL_PING_FRAME_SIZE == 4

None == [none |-> TRUE]

\* FrameHeader { version, _type, len }
FrameHeader(version, type, len) == [version |-> version, _type |-> type, len |-> len]

\* Return values of decode: Ok(None), Ok(Some(Ping(id))), Err(InvalidInput), Err(InvalidData).
OkNone == [kind |-> "None", id |-> U32(0, 0)]
OkPing(id) == [kind |-> "Ping", id |-> id]
ErrInvalidInput == [kind |-> "InvalidInput", id |-> U32(0, 0)]
ErrInvalidData == [kind |-> "InvalidData", id |-> U32(0, 0)]

\* Buf::advance(n): drop the first n bytes.
advance(buf, n) == SubSeq(buf, n + 1, Len(buf))

\* Buf::get_u8 / get_u16 / get_u32: big-endian reads of the first bytes.
get_u8(buf) == buf[1]
get_u16(buf) == buf[1] * 256 + buf[2]
get_u32(buf) == U32(buf[1] * 256 + buf[2], buf[3] * 256 + buf[4])

\* BufMut::put_u8 / put_u16 / put_u32: big-endian appends.
put_u8(buf, v) == Append(buf, v % 256)
put_u16_le(buf, v) == buf \o << v % 256, (v \div 256) % 256 >>
put_u16(buf, v) == buf \o << (v \div 256) % 256, v % 256 >>
put_u32_le(buf, v) ==
    buf \o << v.lo % 256, (v.lo \div 256) % 256, v.hi % 256, (v.hi \div 256) % 256 >>
put_u32(buf, v) ==
    buf \o << (v.hi \div 256) % 256, v.hi % 256, (v.lo \div 256) % 256, v.lo % 256 >>

(***************************************************************************)
(* src/control.rs: ControlCodec::decode and ControlCodec::encode.          *)
(***************************************************************************)
\* decode, lines 71-83: the header read off the first four bytes.
ParseHeaderTypeFirst(buf) ==
    FrameHeader(get_u8(advance(buf, 1)), get_u8(buf), get_u16(advance(buf, 2)))
ParseHeader(buf) ==
    FrameHeader(get_u8(buf), get_u8(advance(buf, 1)), get_u16(advance(buf, 2)))

\* decode, line 55: what self.header.take() leaves in the codec.
TakeLeavesCopy(hdr) == hdr
TakeLeaves(hdr) == None

\* decode, line 94: the header kept for the next call when the body is incomplete.
SaveHeaderDropped(h) == None
SaveHeader(h) == h

\* decode, line 110: bytes dropped for a ping frame shorter than an id.
MalformedAdvanceId(len) == 4
MalformedAdvance(len) == len

\* decode, line 123: bytes dropped after the id of a ping frame has been read.
PingAdvanceNothing(len) == 0
PingAdvance(len) == len - 4

\* decode, line 132: bytes dropped for a frame of unknown type.
UnknownAdvanceNothing(len) == 0
UnknownAdvance(len) == len

\* decode(&mut self, src): the codec's header and the buffer after the call, and
\* the value returned.
decode(hdr, buf) ==
    IF hdr = None /\ Len(buf) < HEADER_WIRE_SIZE
    THEN [header |-> TakeLeaves(hdr), src |-> buf, ret |-> OkNone]
    ELSE
      LET h == IF hdr # None THEN hdr ELSE ParseHeader(buf)
          b == IF hdr # None THEN buf ELSE advance(buf, HEADER_WIRE_SIZE)
      IN  IF Len(b) < h.len
          THEN [header |-> SaveHeader(h), src |-> b, ret |-> OkNone]
          ELSE IF h._type = TYPE_PING
          THEN IF h.len < MINIMAL_PING_FRAME_SIZE
               THEN [header |-> TakeLeaves(hdr),
                     src |-> advance(b, MalformedAdvance(h.len)),
                     ret |-> ErrInvalidInput]
               ELSE [header |-> TakeLeaves(hdr),
                     src |-> advance(advance(b, 4), PingAdvance(h.len)),
                     ret |-> OkPing(get_u32(b))]
          ELSE [header |-> TakeLeaves(hdr), src |-> advance(b, UnknownAdvance(h.len)),
                ret |-> ErrInvalidData]

\* encode, lines 145-170: self.header after the call. encode takes &mut self
\* and uses none of its fields.
HeaderAfterEncodeTaken(hdr) == None
HeaderAfterEncode(hdr) == hdr

\* encode(&mut self, Ping(id), dst): the buffer after the call.
encode(id, buf) ==
    put_u32(put_u16(put_u8(put_u8(buf, PROTO_VERSION), TYPE_PING),
                    MINIMAL_PING_FRAME_SIZE), id)

(***************************************************************************)
(* Frames a remote peer writes by hand: any version and type, a declared   *)
(* length n and exactly n payload bytes, which start with the big-endian   *)
(* bytes of id and continue with 0xEE.                                     *)
(***************************************************************************)
RawPayload(n, id) ==
    [i \in 1..n |-> IF i <= 4 THEN put_u32(<<>>, id)[i] ELSE 238]

RawFrame(v, t, n, id) == put_u16(put_u8(put_u8(<<>>, v), t), n) \o RawPayload(n, id)

Written == fed + Len(dst)

(***************************************************************************)
(* The codec's state machine.                                              *)
(***************************************************************************)
IdleCodec ==
    /\ header = None
    /\ src = <<>>
    /\ dst = <<>>
    /\ frames = <<>>
    /\ results = <<>>
    /\ fed = 0
    /\ polled = FALSE

InitCodec ==
    /\ IdleAddress
    /\ IdleCore
    /\ header = None
    /\ src = <<>>
    /\ dst = <<>>
    /\ frames = <<>>
    /\ results = <<>>
    /\ fed = 0
    /\ polled = FALSE

\* A sink sends Ping(id): encode appends the frame to dst.
Encode(id) ==
    /\ Written + HEADER_WIRE_SIZE + MINIMAL_PING_FRAME_SIZE <= MaxWire
    /\ dst' = encode(id, dst)
    /\ frames' = Append(frames, [enc |-> TRUE, version |-> PROTO_VERSION,
                                 _type |-> TYPE_PING, len |-> MINIMAL_PING_FRAME_SIZE,
                                 id |-> id])
    /\ header' = HeaderAfterEncode(header)
    /\ UNCHANGED <<src, results, fed, polled>>
    /\ UNCHANGED <<addressVars, coreVars>>

\* A remote peer writes a frame of its own making.
WriteRaw(v, t, n, id) ==
    /\ Written + HEADER_WIRE_SIZE + n <= MaxWire
    /\ dst' = dst \o RawFrame(v, t, n, id)
    /\ frames' = Append(frames, [enc |-> FALSE, version |-> v, _type |-> t,
                                 len |-> n, id |-> id])
    /\ UNCHANGED <<header, src, results, fed, polled>>
    /\ UNCHANGED <<addressVars, coreVars>>

\* The transport delivers the next n bytes into the decode buffer.
Deliver(n) ==
    /\ n <= Len(dst)
    /\ src' = src \o SubSeq(dst, 1, n)
    /\ dst' = advance(dst, n)
    /\ fed' = fed + n
    /\ polled' = FALSE
    /\ UNCHANGED <<header, frames, results>>
    /\ UNCHANGED <<addressVars, coreVars>>

\* The stream calls decode on the buffer.
Decode ==
    LET r == decode(header, src) IN
    /\ header' = r.header
    /\ src' = r.src
    /\ results' = IF r.ret = OkNone THEN results
                  ELSE Append(results, [ret |-> r.ret, hdr |-> header # None,
                                        consumed |-> fed - Len(r.src)])
    /\ polled' = TRUE
    /\ UNCHANGED <<dst, frames, fed>>
    /\ UNCHANGED <<addressVars, coreVars>>

NextCodec ==
    \/ \E id \in Ids : Encode(id)
    \/ \E v \in Versions, t \in Types, n \in 0..MaxRawLen, id \in RawIds :
          WriteRaw(v, t, n, id)
    \/ \E n \in 1..MaxWire : Deliver(n)
    \/ Decode

SpecCodec == InitCodec /\ [][NextCodec]_vars

(***************************************************************************)
(* What the wire format promises for a frame, read off its header fields:  *)
(* its size on the wire, and the frame or error it stands for.             *)
(***************************************************************************)
WireSize(f) == 4 + f.len

Expected(f) ==
    IF f._type # 0 THEN ErrInvalidData
    ELSE IF f.len < 4 THEN ErrInvalidInput
    ELSE OkPing(f.id)

(***************************************************************************)
(* Claims about the codec, checked under SpecCodec.                        *)
(***************************************************************************)

\* C1: round trip.  When the first frame on the wire is encode(Ping(id)) into
\* an empty buffer and decode is called on a codec with no buffered header once
\* all 8 bytes are in its buffer, the call returns exactly Ping(id) and leaves
\* the buffer empty and the codec without a header.
C1_RoundTrip ==
    (/\ frames # <<>>
     /\ frames[1].enc
     /\ fed = 8
     /\ polled
     /\ (results = <<>> \/ ~results[1].hdr))
    => /\ results = << [ret |-> OkPing(frames[1].id), hdr |-> FALSE, consumed |-> 8] >>
       /\ src = <<>>
       /\ header = None

C1_Witness ==
    /\ frames = << [enc |-> TRUE, version |-> 0, _type |-> 0, len |-> 4,
                    id |-> U32(258, 772)] >>
    /\ results = << [ret |-> OkPing(U32(258, 772)), hdr |-> FALSE, consumed |-> 8] >>
    /\ fed = 8
    /\ src = <<>>

\* C2: partial delivery.  When the first frame on the wire is an encoded
\* Ping(id), delivered in any chunks with decode called at any points: no call
\* made before the 8th byte has arrived returns a frame or an error; a call made
\* once the 8th byte has arrived has returned a frame; and the first (and, for a
\* wire holding only this frame, the only) result is Ping(id), 8 bytes consumed.
C2_PartialDelivery ==
    (frames # <<>> /\ frames[1].enc)
    => /\ (fed < 8 => results = <<>>)
       /\ (fed >= 8 /\ polled => results # <<>>)
       /\ (results # <<>> =>
              /\ results[1].ret = OkPing(frames[1].id)
              /\ results[1].consumed = 8)
       /\ (Len(frames) = 1 => Len(results) <= 1)

\* The frame was split inside its payload: the call that returned the ping had
\* found the header buffered by an earlier call.
C2_Witness ==
    /\ Len(frames) = 1
    /\ frames[1].enc
    /\ results = << [ret |-> OkPing(frames[1].id), hdr |-> TRUE, consumed |-> 8] >>
    /\ frames[1].id = U32(65535, 65535)

\* C3: unknown type.  When the first frame has type # 0 and length L: no call
\* returns a result before its 4 + L bytes have arrived; a call made once they
\* have arrived fails with InvalidData having consumed exactly 4 + L bytes; and
\* when a well-formed ping follows it directly, the next decode call that has
\* the ping's bytes returns that ping with its id.
C3_UnknownTypeResync ==
    (frames # <<>> /\ frames[1]._type # TYPE_PING)
    => LET L == frames[1].len IN
       /\ (fed < 4 + L => results = <<>>)
       /\ (fed >= 4 + L /\ polled => results # <<>>)
       /\ (results # <<>> =>
              /\ results[1].ret = ErrInvalidData
              /\ results[1].consumed = 4 + L)
       /\ (Len(frames) >= 2 /\ Expected(frames[2]).kind = "Ping" =>
              /\ (Len(results) = 1 /\ fed >= 4 + L + WireSize(frames[2]) =>
                     decode(header, src).ret = OkPing(frames[2].id))
              /\ (Len(results) >= 2 =>
                     /\ results[2].ret = OkPing(frames[2].id)
                     /\ results[2].consumed = 4 + L + WireSize(frames[2])))

C3_Witness ==
    /\ Len(frames) = 2
    /\ frames[1]._type = 1
    /\ frames[1].len = 4
    /\ frames[2].enc
    /\ Len(results) = 2
    /\ results[1] = [ret |-> ErrInvalidData, hdr |-> TRUE, consumed |-> 8]
    /\ results[2].ret = OkPing(frames[2].id)

\* C4: malformed ping.  When the first frame has type 0 and length N < 4: no
\* call returns a result before its 4 + N bytes have arrived; a call made once
\* they have arrived fails with InvalidInput having consumed exactly N bytes
\* past the 4 header bytes; the codec then holds no header; and the bytes that
\* follow are parsed as a new header, so the next frame gets its own outcome.
C4_MalformedPing ==
    (frames # <<>> /\ frames[1]._type = TYPE_PING /\ frames[1].len < 4)
    => LET N == frames[1].len IN
       /\ (fed < 4 + N => results = <<>>)
       /\ (fed >= 4 + N /\ polled => results # <<>>)
       /\ (results # <<>> =>
              /\ results[1].ret = ErrInvalidInput
              /\ results[1].consumed = 4 + N)
       /\ (Len(results) = 1 /\ fed - Len(src) = 4 + N => header = None)
       /\ (Len(frames) >= 2 /\ Len(results) >= 2 =>
              /\ results[2].ret = Expected(frames[2])
              /\ results[2].consumed = 4 + N + WireSize(frames[2]))

\* An empty ping (N = 0) and then a 3-byte ping, both rejected in turn.
C4_Witness ==
    /\ Len(frames) = 2
    /\ frames[1]._type = 0 /\ frames[1].len = 0
    /\ frames[2]._type = 0 /\ frames[2].len = 3
    /\ Len(results) = 2
    /\ results[1] = [ret |-> ErrInvalidInput, hdr |-> FALSE, consumed |-> 4]
    /\ results[2] = [ret |-> ErrInvalidInput, hdr |-> TRUE, consumed |-> 11]
    /\ header = None

\* A step of the codec's state machine is a decode call when the call flag is
\* set after it and neither the wire nor the bytes delivered have changed.
DecodeStep == polled' /\ dst' = dst /\ frames' = frames /\ fed' = fed
GaveResult == Len(results') > Len(results)

\* C13: buffered header.  The codec's header is one optional value.  After a
\* decode call that returns a frame or an error no header is buffered; after a
\* call that returns 'insufficient data' a header is buffered exactly when the
\* call held one or had the 4 bytes to parse one, and then its declared length
\* exceeds the payload bytes in the buffer.
C13_BufferedHeader ==
    [][DecodeStep =>
          /\ GaveResult => header' = None
          /\ ~GaveResult =>
                /\ header' # None <=> (header # None \/ Len(src) >= 4)
                /\ header' # None => Len(src') < header'.len
                /\ header # None => header' = header]_vars

\* A header is buffered while its 5-byte payload is one byte short, and the
\* frame before it was returned.
C13_Witness ==
    /\ header = FrameHeader(0, 0, 5)
    /\ Len(src) = 4
    /\ Len(results) = 1
    /\ polled

\* Bytes of the wire taken up by the first i frames.
RECURSIVE Cum(_)
Cum(i) == IF i = 0 THEN 0 ELSE Cum(i - 1) + WireSize(frames[i])

\* C14: stream order and chunking independence.  However the wire is cut into
\* deliveries and wherever decode is called, the results returned so far are
\* the outcomes of the first frames of the wire, one per frame and in order,
\* the i-th having consumed exactly the bytes of the first i frames; and the
\* next call returns the next frame's outcome if all its bytes have arrived,
\* and 'insufficient data' if not.
C14_StreamOrder ==
    /\ Len(results) <= Len(frames)
    /\ \A i \in DOMAIN results :
          /\ results[i].ret = Expected(frames[i])
          /\ results[i].consumed = Cum(i)
    /\ LET n == Len(results) + 1 IN
       decode(header, src).ret =
          IF n <= Len(frames) /\ fed >= Cum(n) THEN Expected(frames[n]) ELSE OkNone

\* A well-formed ping, a malformed ping and a frame of unknown type, each
\* returned in its turn, the first after a split inside its payload.
C14_Witness ==
    /\ Len(results) = 3
    /\ results[1].ret.kind = "Ping" /\ results[1].hdr
    /\ results[2].ret = ErrInvalidInput
    /\ results[3].ret = ErrInvalidData

\* C15: decode's first step.  A call made with no header buffered and fewer
\* than 4 bytes in the buffer returns 'insufficient data' and leaves buffer and
\* codec as they were; a call made with no header buffered and at least 4
\* bytes takes exactly those 4 bytes as the header: when the payload is
\* incomplete the buffer has lost them and nothing else and the header holds
\* their three fields, otherwise the buffer has lost them and the payload.
C15_HeaderStep ==
    [][DecodeStep /\ header = None =>
          IF Len(src) < 4
          THEN ~GaveResult /\ src' = src /\ header' = None
          ELSE LET N == src[3] * 256 + src[4] IN
               IF Len(src) - 4 < N
               THEN /\ ~GaveResult
                    /\ src' = SubSeq(src, 5, Len(src))
                    /\ header' = FrameHeader(src[1], src[2], N)
               ELSE /\ GaveResult
                    /\ src' = SubSeq(src, 5 + N, Len(src))
                    /\ header' = None]_vars

\* Three bytes were in the buffer at one call, which took nothing; the header
\* was taken by a later call, which found the payload incomplete.
C15_Witness ==
    /\ header = FrameHeader(1, 1, 3)
    /\ src = <<0, 0>>
    /\ fed = 6
    /\ results = <<>>

\* C16: oversized ping.  A frame of type 0 whose declared length N is above 4
\* is returned as Ping(id), id being the big-endian value of its first four
\* payload bytes whatever follows them, once and not before all N payload
\* bytes have arrived; the call consumes the whole N bytes, and the frame that
\* follows gets its own outcome, counted from the byte after them.
C16_OversizedPing ==
    \A i \in DOMAIN frames :
        (frames[i]._type = 0 /\ frames[i].len > 4) =>
            /\ Len(results) < i => fed - Len(src) <= Cum(i - 1) + 4
            /\ fed < Cum(i) => Len(results) < i
            /\ Len(results) >= i =>
                  /\ results[i].ret = OkPing(frames[i].id)
                  /\ results[i].consumed = Cum(i - 1) + 4 + frames[i].len
            /\ (Len(results) = i /\ i < Len(frames) /\ fed >= Cum(i + 1)) =>
                  decode(header, src).ret = Expected(frames[i + 1])
            /\ Len(results) > i => results[i + 1].ret = Expected(frames[i + 1])

\* A 5-byte ping was returned after a split inside its payload, and the
\* 3-byte ping behind it was rejected as its own frame.
C16_Witness ==
    /\ Len(frames) = 2
    /\ frames[1]._type = 0 /\ frames[1].len = 5
    /\ frames[2]._type = 0 /\ frames[2].len = 3
    /\ Len(results) = 2
    /\ results[1] = [ret |-> OkPing(U32(0, 4)), hdr |-> TRUE, consumed |-> 9]
    /\ results[2] = [ret |-> ErrInvalidInput, hdr |-> TRUE, consumed |-> 16]

\* C17: encode output.  A call of encode with Ping(id) appends to dst the eight
\* bytes 00 00 00 04 and the id's four bytes, most significant first, and
\* leaves the bytes dst held before in place in front of them.
C17_EncodeOutput ==
    [][(Len(frames') = Len(frames) + 1 /\ frames'[Len(frames')].enc) =>
          LET id == frames'[Len(frames')].id IN
          dst' = dst \o <<0, 0, 0, 4,
                          id.hi \div 256, id.hi % 256, id.lo \div 256, id.lo % 256>>]_vars

\* A ping with id 0x01020304 was encoded behind the two bytes of a raw frame
\* that the transport had not yet taken.
C17_Witness ==
    /\ Len(frames) = 2
    /\ frames[2].enc
    /\ Len(dst) = 10
    /\ SubSeq(dst, 3, 10) = <<0, 0, 0, 4, 1, 2, 3, 4>>

(***************************************************************************)
(* The address derivation as a state machine: a key and a build are given, *)
(* and PublicKey::address is called on the key.                            *)
(***************************************************************************)
InitAddress ==
    /\ IdleCodec
    /\ IdleCore
    /\ key \in Keys
    /\ overflowChecks \in BOOLEAN
    /\ addr = NotCalled
    /\ peer_addr = NotCalled

DeriveAddress ==
    /\ addr = NotCalled
    /\ addr' = address(key, overflowChecks)
    /\ UNCHANGED <<key, overflowChecks, peer_addr>>
    /\ UNCHANGED <<codecVars, coreVars>>

\* Peer::new(key).address() is called, in the same build.
PeerDeriveAddress ==
    /\ peer_addr = NotCalled
    /\ peer_addr' = peer_address(key, overflowChecks)
    /\ UNCHANGED <<key, overflowChecks, addr>>
    /\ UNCHANGED <<codecVars, coreVars>>

NextAddress == DeriveAddress \/ PeerDeriveAddress

SpecAddress == InitAddress /\ [][NextAddress]_vars

(***************************************************************************)
(* The derivation as the specification words it: W is the complement of    *)
(* the key read most significant bit first; ones is the number of leading  *)
(* 1-bits of W; the first 0-bit is dropped; the bits after it are packed 8 *)
(* at a time, an incomplete last byte dropped.                             *)
(***************************************************************************)
NBits == PUBLIC_KEY_LENGTH * 8

\* Bit i (0-based) of W.
W(k, i) == 1 - ((k[(i \div 8) + 1] \div Pow2(7 - (i % 8))) % 2)

\* The number of leading 1-bits of W: the n such that the first n bits are 1
\* and bit n, if there is one, is 0.
LeadingOnes(k) ==
    CHOOSE n \in 0..NBits :
        /\ \A i \in 0..(n - 1) : W(k, i) = 1
        /\ (n = NBits \/ W(k, n) = 0)

\* Packed byte j (0-based) of the bits that follow the terminator at position t.
Packed(k, t, j) ==
    LET b(n) == W(k, t + 1 + 8 * j + n) IN
    b(0) * 128 + b(1) * 64 + b(2) * 32 + b(3) * 16 + b(4) * 8 + b(5) * 4 + b(6) * 2 + b(7)

\* The 16 bytes: the prefix, `ones`, and the first 14 packed bytes after the
\* terminator at position t, zero-filled.
Assemble(k, t, ones) ==
    <<2, ones>> \o [j \in 1..14 |-> IF t + 8 * j < NBits THEN Packed(k, t, j - 1) ELSE 0]

Min(a, b) == IF a < b THEN a ELSE b

(***************************************************************************)
(* Claims about the address derivation, checked under SpecAddress.         *)
(***************************************************************************)

\* C5: for every key, PublicKey::address returns [0x02, ones, the first 14
\* packed bytes zero-filled], with ones the number of leading 1-bits of W; and
\* the key of the tests derives the address of the tests.
C5_AddressMatchesAlgorithm ==
    addr # NotCalled =>
        LET ones == LeadingOnes(key) IN
        /\ addr = Returned(Assemble(key, ones, ones))
        /\ (key = TestKey => addr = Returned(TestAddress))

\* C6: for every key, the all-zero key included, PublicKey::address completes
\* and byte 1 of the address is min(number of leading 1-bits of W, 255).
C6_OnesSaturates ==
    addr # NotCalled =>
        /\ addr.status = "Returned"
        /\ addr.bytes[2] = Min(LeadingOnes(key), 255)

\* What the code does: it returns the address of the algorithm for every key
\* but the all-zero one, whose 256th leading 1-bit overflows the u8 counter:
\* a panic with overflow checks, a count wrapped to 0 without.
AddressExceptAllZero ==
    addr # NotCalled =>
        LET ones == LeadingOnes(key) IN
        IF ones < NBits
        THEN /\ addr = Returned(Assemble(key, ones, ones))
             /\ (key = TestKey => addr = Returned(TestAddress))
        ELSE addr = IF overflowChecks THEN Panicked
                    ELSE Returned(<<2, 0>> \o [j \in 1..14 |-> 0])

(***************************************************************************)
(* The core as a state machine.                                            *)
(***************************************************************************)
\* A control and a data connection that complete their handshakes.
Completing(c) ==
    IF c % 2 = 1 THEN Remote("K1", TRUE, CtrlBytes, 36, FALSE)
    ELSE Remote("K2", TRUE, DataBytes, 36, FALSE)

\* The core after n remotes have connected and completed their handshakes,
\* control and data connections in turn, before the core task has received
\* any of them. InitAfter(0) is the state Core::new leaves: empty registries,
\* an empty channel, the listener and the core task spawned.
InitAfter(n) ==
    /\ IdleCodec
    /\ IdleAddress
    /\ toAccept = MaxConns
    /\ accepted = n
    /\ remote = [c \in Conns |-> IF c > n THEN NoRemote ELSE Completing(c)]
    /\ hs = [c \in Conns |-> IF c > n THEN "none" ELSE "sent"]
    /\ stream = [c \in Conns |-> [read |-> IF c > n THEN 0 ELSE 36, written |-> 0]]
    /\ queue = [c \in 1..n |-> Connection(MatchMagic(read_u32(Completing(c).magic)),
                                          c, Completing(c).key)]
    /\ waiters = <<>>
    /\ granted = <<>>
    /\ handler = [c \in Conns |-> "none"]
    /\ active_peers = {}
    /\ active_data_peers = {}
    /\ enqLog = [c \in 1..n |-> c]
    /\ spawnLog = <<>>

\* Behaviours start at construction, or at the moment the intake queue has
\* first been filled (the state InitAfter(0) reaches by QUEUE_CAP times
\* Accept, ReadKey, ReadMagic), so that a full queue is within the bound on
\* new connections.
Init == InitAfter(0) \/ InitAfter(QUEUE_CAP)

\* start_listener, lines 103-106: a remote connects, accept returns its stream
\* and the handshake task is spawned; it first awaits the key.
Accept(r) ==
    /\ toAccept > 0
    /\ toAccept' = toAccept - 1
    /\ accepted' = accepted + 1
    /\ remote' = [remote EXCEPT ![accepted + 1] = r]
    /\ hs' = [hs EXCEPT ![accepted + 1] = "read_key"]
    /\ UNCHANGED <<stream, queue, waiters, granted, handler, active_peers, active_data_peers,
                   enqLog, spawnLog>>
    /\ UNCHANGED <<codecVars, addressVars>>

\* Handshake task, lines 107-121: read_exact returns; on an error the task
\* ends, otherwise the bytes are validated and on an invalid key the task ends;
\* otherwise it goes on to await the magic.
ReadKey(c) ==
    /\ hs[c] = "read_key"
    /\ ReadExactReady(remote[c])
    /\ stream' = [stream EXCEPT ![c].read = BytesRead(remote[c], PUBLIC_KEY_LENGTH)]
    /\ hs' = [hs EXCEPT ![c] =
                 IF ~ReadExactOk(remote[c]) THEN "closed_in_key"
                 ELSE IF ~FromBytesOk(remote[c]) THEN "invalid_key"
                 ELSE "read_magic"]
    /\ UNCHANGED <<toAccept, accepted, remote, queue, waiters, granted, handler, active_peers,
                   active_data_peers, enqLog, spawnLog>>
    /\ UNCHANGED <<codecVars, addressVars>>

\* Handshake task, lines 122-141: read_u32 returns; on an error the task ends;
\* on a magic that is neither constant the task ends; otherwise the classified
\* connection is sent. Sender::send first acquires a slot of the channel: when
\* one is free the message is written into the buffer in the same poll (and the
\* task ends), else the task joins the channel's queue of waiting senders and
\* suspends, holding its message.
ReadMagic(c) ==
    /\ hs[c] = "read_magic"
    /\ ReadU32Ready(remote[c])
    /\ stream' = [stream EXCEPT ![c].read = BytesRead(remote[c], PUBLIC_KEY_LENGTH + 4)]
    /\ LET class == MatchMagic(read_u32(remote[c].magic))
           msg == Connection(class, c, remote[c].key)
       IN  IF ~ReadU32Ok(remote[c])
           THEN /\ hs' = [hs EXCEPT ![c] = "closed_in_magic"]
                /\ UNCHANGED <<queue, waiters, enqLog>>
           ELSE IF class = "None"
           THEN /\ hs' = [hs EXCEPT ![c] = "unknown_magic"]
                /\ UNCHANGED <<queue, waiters, enqLog>>
           ELSE IF Permits(queue, granted) > 0
           THEN /\ hs' = [hs EXCEPT ![c] = "sent"]
                /\ queue' = Append(queue, msg)
                /\ enqLog' = Append(enqLog, c)
                /\ UNCHANGED waiters
           ELSE /\ hs' = [hs EXCEPT ![c] = "send_wait"]
                /\ waiters' = Append(waiters, msg)
                /\ UNCHANGED <<queue, enqLog>>
    /\ active_peers' = RegistryAfterHandshake(active_peers, remote[c].key)
    /\ active_data_peers' = RegistryAfterHandshake(active_data_peers, c)
    /\ UNCHANGED <<toAccept, accepted, remote, granted, handler, spawnLog>>
    /\ UNCHANGED <<codecVars, addressVars>>

\* Handshake task woken in send, lines 131-132 and 134-135: the task holds a
\* slot; polled again, it writes its message into the buffer and ends. The
\* runtime of #[tokio::main] runs woken tasks on several worker threads, in no
\* fixed order: any task that holds a slot can be the next to write.
SendWake(c) ==
    /\ hs[c] = "send_wait"
    /\ \E i \in DOMAIN granted :
          /\ granted[i].con = c
          /\ queue' = Append(queue, granted[i])
          /\ granted' = SubSeq(granted, 1, i - 1) \o SubSeq(granted, i + 1, Len(granted))
    /\ enqLog' = Append(enqLog, c)
    /\ hs' = [hs EXCEPT ![c] = "sent"]
    /\ UNCHANGED <<toAccept, accepted, remote, stream, waiters, handler, active_peers,
                   active_data_peers, spawnLog>>
    /\ UNCHANGED <<codecVars, addressVars>>

\* handle_connections, lines 80-89: recv returns the oldest message and frees
\* its slot: the channel hands the slot to the sender that has waited longest,
\* if there is one, and wakes its task. The core task then spawns the handler
\* of the connection's class; con and peer are dropped, and neither registry
\* is touched.
Dispatch ==
    /\ queue # <<>>
    /\ MaySpawn
    /\ LET msg == Recv(queue) IN
       /\ handler' = [handler EXCEPT ![msg.con] = "spawned"]
       /\ spawnLog' = Append(spawnLog, Connection(HandlerClass(msg), msg.con, msg.pk))
    /\ queue' = AfterRecv(queue)
    /\ IF waiters # <<>>
       THEN /\ granted' = Append(granted, Head(waiters))
            /\ waiters' = Tail(waiters)
       ELSE UNCHANGED <<waiters, granted>>
    /\ UNCHANGED <<toAccept, accepted, remote, hs, stream, active_peers,
                   active_data_peers, enqLog>>
    /\ UNCHANGED <<codecVars, addressVars>>

\* spawn_control_con / spawn_data_con, lines 92-98: the handler task is polled
\* and ends at once, in the panic of todo!().
HandlerRun(c) ==
    /\ handler[c] = "spawned"
    /\ handler' = [handler EXCEPT ![c] = "panicked"]
    /\ UNCHANGED <<toAccept, accepted, remote, hs, stream, queue, waiters, granted,
                   active_peers, active_data_peers, enqLog, spawnLog>>
    /\ UNCHANGED <<codecVars, addressVars>>

Next ==
    \/ \E r \in Remotes : Accept(r)
    \/ \E c \in Conns : ReadKey(c)
    \/ \E c \in Conns : ReadMagic(c)
    \/ \E c \in Conns : SendWake(c)
    \/ Dispatch
    \/ \E c \in Conns : HandlerRun(c)

Spec == Init /\ [][Next]_vars

\* A step of a spawned task: a handshake task whose read has data or an end
\* of stream, a sender that holds a slot, the core task when the queue holds a
\* message, a spawned handler. These are the steps of Next that accept no
\* connection; tasks exist for accepted connections only.
TaskStep ==
    \/ Dispatch
    \/ \E c \in 1..accepted : HandlerRun(c)
    \/ \E c \in 1..accepted : ReadKey(c)
    \/ \E c \in 1..accepted : ReadMagic(c)
    \/ \E c \in 1..accepted : SendWake(c)

\* The runtime does not stop polling while a task can make a step. Remotes
\* connect when they please.
Fairness == WF_vars(TaskStep)

SpecFair == Spec /\ Fairness

(***************************************************************************)
(* Claims about the core.                                                  *)
(***************************************************************************)
Range(f) == {f[i] : i \in DOMAIN f}
ConsOf(msgs) == [i \in DOMAIN msgs |-> msgs[i].con]

\* Every message a handshake task has handed to send: received by the core,
\* in the buffer, holding a slot, or waiting for one.
SubmittedSeq == spawnLog \o queue \o granted \o waiters
SubmittedOf(c) == {i \in DOMAIN SubmittedSeq : SubmittedSeq[i].con = c}

\* What the remote of connection c puts on the stream, read as the claim reads
\* it: Control for a valid key and the bytes 43 54 52 4C, Data for a valid key
\* and the bytes 44 41 54 41, None for everything else.
StreamClass(c) ==
    IF remote[c].sent < 36 \/ ~remote[c].valid THEN "None"
    ELSE IF remote[c].magic = <<4 * 16 + 3, 5 * 16 + 4, 5 * 16 + 2, 4 * 16 + 12>> THEN "Control"
    ELSE IF remote[c].magic = <<4 * 16 + 4, 4 * 16 + 1, 5 * 16 + 4, 4 * 16 + 1>> THEN "Data"
    ELSE "None"

\* C7 (handshake classification): every message ever submitted belongs to a
\* stream that delivered a valid key and then 0x4354524C big-endian, and is
\* Control(stream, key), or 0x44415441, and is Data(stream, key); no stream has
\* two messages; a stream has its message exactly from the moment its task has
\* read the 36 bytes and called send, and the task of such a stream never
\* gives the connection up. So a stream with any other magic, or one that ends
\* (or stalls) before 36 bytes, never has a message submitted and never enters
\* the intake queue.
C7_HandshakeClassification ==
    LET seq == SubmittedSeq
        cons == Range(ConsOf(seq))
        Right(m) ==
            /\ StreamClass(m.con) # "None"
            /\ m = Connection(StreamClass(m.con), m.con, remote[m.con].key)
    IN  /\ \A i \in DOMAIN seq : Right(seq[i])
        /\ Cardinality(cons) = Len(seq)
        /\ Range(enqLog) \subseteq cons
        /\ \A c \in 1..accepted :
              /\ hs[c] \in {"send_wait", "sent"} <=> c \in cons
              /\ StreamClass(c) # "None" =>
                    hs[c] \in {"read_key", "read_magic", "send_wait", "sent"}

\* C7 witness: two streams accepted after construction; the first sent CTRL in
\* little-endian order and was given up, the second sent DATA and is the one
\* entry of the intake queue.
C7_Witness ==
    /\ accepted = 2
    /\ remote[1].magic = <<76, 82, 84, 67>>
    /\ hs[1] = "unknown_magic"
    /\ hs[2] = "sent"
    /\ queue = <<Connection("Data", 2, "K2")>>

\* The connections suspended in send, the one that has waited longest first.
Blocked == ConsOf(granted \o waiters)

\* C8 (backpressure): the intake queue never holds more than its capacity; a
\* connection whose task is suspended at the send is submitted exactly once,
\* and queued entries leave only by being received, in order; and a
\* connection that had to wait is enqueued only when it is the one that has
\* waited longest, so that those that waited are enqueued, and delivered, in
\* the order in which they began to wait.
C8_Backpressure ==
    /\ [](/\ Len(queue) <= QUEUE_CAP
          /\ \A c \in Range(Blocked) : Cardinality(SubmittedOf(c)) = 1
          /\ ConsOf(spawnLog \o queue) = enqLog)
    /\ [][\A c \in Conns :
            (hs[c] = "send_wait" /\ hs'[c] = "sent") =>
                /\ c = Blocked[1]
                /\ Len(queue') = Len(queue) + 1
                /\ queue'[Len(queue')].con = c]_vars

\* What of C8 the code does keep: everything but the order of enqueuing; the
\* slots are handed out in the order of waiting, and a task suspends exactly
\* when no slot is free.
BackpressureExceptOrder ==
    /\ [](/\ Len(queue) <= QUEUE_CAP
          /\ Permits(queue, granted) >= 0
          /\ waiters # <<>> => Permits(queue, granted) = 0
          /\ \A c \in Range(Blocked) : Cardinality(SubmittedOf(c)) = 1 /\ hs[c] = "send_wait"
          /\ ConsOf(spawnLog \o queue) = enqLog)
    /\ [][/\ Blocked' # Blocked =>
                \/ \E c \in Conns : Blocked' = Append(Blocked, c) /\ Permits(queue, granted) = 0
                \/ \E i \in DOMAIN granted :
                      /\ Blocked' = SubSeq(Blocked, 1, i - 1) \o SubSeq(Blocked, i + 1, Len(Blocked))
                      /\ queue' = Append(queue, granted[i])
          /\ (granted' # granted /\ Len(granted') > Len(granted)) =>
                /\ waiters # <<>>
                /\ granted' = Append(granted, Head(waiters))
                /\ waiters' = Tail(waiters)]_vars

\* C9 (dispatch order): the core task has spawned handlers for exactly the
\* first connections enqueued, in the order of enqueuing and each with the
\* class it was enqueued with; the rest of the enqueued connections are in the
\* intake queue, in that order.
C9_DispatchOrder ==
    /\ Len(spawnLog) <= Len(enqLog)
    /\ \A i \in DOMAIN spawnLog :
          /\ spawnLog[i].con = enqLog[i]
          /\ spawnLog[i].class = StreamClass(enqLog[i])
    /\ ConsOf(queue) = SubSeq(enqLog, Len(spawnLog) + 1, Len(enqLog))
    /\ \A c \in Conns : handler[c] # "none" <=> c \in Range(ConsOf(spawnLog))

\* C9 witness: the handler of the stream accepted second was spawned before
\* the handler of the stream accepted first.
C9_Witness ==
    /\ Len(spawnLog) = 2
    /\ spawnLog[1].con = 2
    /\ spawnLog[2].con = 1

\* C10 (registry maintenance): in every state the control registry holds
\* exactly the keys, and the data registry exactly the connections, of the
\* sessions whose handler has been spawned and has not terminated.
C10_RegistryMaintenance ==
    /\ active_peers =
          {m.pk : m \in {x \in Range(spawnLog) :
                            x.class = "Control" /\ handler[x.con] = "spawned"}}
    /\ active_data_peers =
          {m.con : m \in {x \in Range(spawnLog) :
                             x.class = "Data" /\ handler[x.con] = "spawned"}}

\* Steps told apart by what they change: the accept loop adds a connection, a
\* handshake task moves its own position, the core task adds to the handlers
\* it has spawned, a handler task changes its own state only.
AcceptStep == accepted' # accepted
HandshakeStep == accepted' = accepted /\ hs' # hs
CoreStep == spawnLog' # spawnLog
HandlerStep == spawnLog' = spawnLog /\ handler' # handler

\* C11 (registry ownership): a step that changes active_peers or
\* active_data_peers is a step of the core task; steps of the accept loop, of
\* handshake tasks and of handler tasks leave both registries as they are, and
\* a handshake step leaves the handlers alone and changes the intake queue, if
\* at all, by appending its one message.
C11_RegistryOwnership ==
    [][/\ (active_peers' # active_peers \/ active_data_peers' # active_data_peers)
             => CoreStep /\ ~AcceptStep /\ ~HandshakeStep
       /\ (AcceptStep \/ HandshakeStep \/ HandlerStep)
             => UNCHANGED <<active_peers, active_data_peers>>
       /\ AcceptStep => UNCHANGED <<queue, waiters, granted, handler, spawnLog>>
       /\ HandshakeStep =>
             /\ UNCHANGED <<handler, spawnLog>>
             /\ \/ queue' = queue
                \/ /\ Len(queue') = Len(queue) + 1
                   /\ SubSeq(queue', 1, Len(queue)) = queue
                   /\ hs'[queue'[Len(queue')].con] = "sent"
                   /\ hs[queue'[Len(queue')].con] # "sent"]_vars

\* C11 witness: with the queue full at the start, the core task has received
\* once and the handshake task of a new connection has written its message;
\* the registries are as Core::new left them.
C11_Witness ==
    /\ enqLog # <<>>
    /\ enqLog[Len(enqLog)] = QUEUE_CAP + 1
    /\ hs[QUEUE_CAP + 1] = "sent"
    /\ Len(spawnLog) = 1
    /\ Len(queue) = QUEUE_CAP
    /\ active_peers = {}
    /\ active_data_peers = {}

\* Where a handshake task has ended without classifying its connection.
FailedStates == {"closed_in_key", "invalid_key", "closed_in_magic", "unknown_magic"}
Failed(c) == hs[c] \in FailedStates
Dispatched(c) == \E i \in DOMAIN spawnLog : spawnLog[i].con = c

\* What the remote of connection c does wrong, read off its stream: it ends
\* the stream before 36 bytes, or its key is not valid, or its magic is neither
\* 43 54 52 4C nor 44 41 54 41.
BadStream(c) ==
    \/ remote[c].sent < 36 /\ remote[c].closed
    \/ remote[c].sent >= 32 /\ ~remote[c].valid
    \/ remote[c].sent >= 36 /\ StreamClass(c) = "None"

\* C12 (failure isolation): the step in which the task of a connection ends on
\* a read error, an end of stream or a failed validation changes nothing but
\* that task, and the task stays ended with nothing submitted; while there are
\* ended tasks the accept loop can still accept; and under fair scheduling
\* there is always a later moment at which every other connection accepted so
\* far that sent a valid key and a known magic has been dispatched to a
\* handler of its class.
C12_FailureIsolation ==
    /\ [][\A c \in Conns :
            /\ (~Failed(c) /\ hs'[c] \in FailedStates) =>
                  /\ \A d \in Conns : d # c => hs'[d] = hs[d] /\ stream'[d] = stream[d]
                  /\ UNCHANGED <<toAccept, accepted, remote, queue, waiters, granted,
                                 handler, spawnLog, active_peers, active_data_peers>>
            /\ Failed(c) => hs'[c] = hs[c]]_vars
    /\ [](\A c \in 1..accepted :
            /\ (BadStream(c) /\ hs[c] \notin {"read_key", "read_magic"}) =>
                  Failed(c) /\ SubmittedOf(c) = {}
            /\ Failed(c) => BadStream(c))
    /\ []((\E c \in Conns : Failed(c)) /\ toAccept > 0 => ENABLED (\E r \in Remotes : Accept(r)))
    /\ []<>(\A c \in 1..accepted : Failed(c) =>
               \A d \in 1..accepted : (d # c /\ StreamClass(d) # "None") =>
                  \E i \in DOMAIN spawnLog :
                     spawnLog[i] = Connection(StreamClass(d), d, remote[d].key))

\* C12 witness: the first stream ended inside its key and its task ended; the
\* second, accepted later, sent a valid key and DATA and has its data handler.
C12_Witness ==
    /\ accepted = 2
    /\ hs[1] = "closed_in_key"
    /\ stream[1].read = 31
    /\ spawnLog = <<Connection("Data", 2, "K2")>>

\* C18 (exactly-once dispatch): a dispatch takes the oldest message of the
\* queue as the handshake task enqueued it, class included, and spawns one
\* handler, for a connection that had none; no connection is dispatched
\* twice, a connection has a handler exactly when it was dispatched, the class
\* of a message, from the moment it is handed to send up to its handler, is
\* the class of the magic on the connection's stream, which never changes; the
\* queue changes only by losing its oldest message or gaining a newest one;
\* and under fair scheduling every enqueued connection is dispatched.
C18_ExactlyOnceDispatch ==
    /\ [](/\ \A i, j \in DOMAIN spawnLog : spawnLog[i].con = spawnLog[j].con => i = j
          /\ \A i \in DOMAIN SubmittedSeq :
                SubmittedSeq[i].class = StreamClass(SubmittedSeq[i].con)
          /\ \A c \in Conns : handler[c] # "none" <=> Dispatched(c))
    /\ [][/\ \A c \in 1..accepted : remote'[c] = remote[c]
          /\ queue' # queue => \/ queue # <<>> /\ queue' = Tail(queue)
                               \/ /\ Len(queue') = Len(queue) + 1
                                  /\ SubSeq(queue', 1, Len(queue)) = queue
          /\ spawnLog' # spawnLog =>
                /\ queue # <<>>
                /\ spawnLog' = Append(spawnLog, queue[1])
                /\ handler[queue[1].con] = "none"
                /\ handler' = [handler EXCEPT ![queue[1].con] = "spawned"]]_vars
    /\ []<>(\A i \in DOMAIN enqLog : Dispatched(enqLog[i]))

C18_Witness ==
    /\ spawnLog = <<Connection("Control", 1, "K1"), Connection("Data", 2, "K2")>>
    /\ enqLog = <<1, 2>>
    /\ handler[1] = "panicked"
    /\ handler[2] = "spawned"
    /\ queue = <<>>

\* A remote that neither sends the bytes the handshake task of connection c
\* awaits nor closes the stream: fewer than 32 bytes, or a valid key and fewer
\* than 4 bytes after it.
Stalled(c) ==
    /\ c <= accepted
    /\ ~remote[c].closed
    /\ \/ remote[c].sent < PUBLIC_KEY_LENGTH
       \/ remote[c].sent < PUBLIC_KEY_LENGTH + 4 /\ remote[c].valid

\* C19 (handshake independence): the task of a connection whose remote has
\* stalled is at any time in the read of the key, having read nothing, or,
\* if the remote sent a key, in the read of the magic, having read the key;
\* it has submitted nothing; accept stays enabled as long as a remote is left to
\* connect; and under fair scheduling every connection accepted after a
\* stalled one whose stream carries a valid key and a known magic is
\* dispatched with its class.
C19_HandshakeIndependence ==
    /\ [](\A c \in Conns : Stalled(c) =>
            /\ hs[c] = (IF stream[c].read = 0 THEN "read_key" ELSE "read_magic")
            /\ stream[c].read = (IF remote[c].sent < PUBLIC_KEY_LENGTH \/ hs[c] = "read_key"
                                 THEN 0 ELSE PUBLIC_KEY_LENGTH)
            /\ SubmittedOf(c) = {}
            /\ handler[c] = "none")
    /\ []((\E c \in Conns : Stalled(c)) /\ toAccept > 0
             => ENABLED (\E r \in Remotes : Accept(r)))
    /\ []<>(\A c \in 1..accepted : Stalled(c) =>
               \A d \in (c + 1)..accepted : StreamClass(d) # "None" =>
                  /\ \E i \in DOMAIN enqLog : enqLog[i] = d
                  /\ \E i \in DOMAIN spawnLog :
                        spawnLog[i] = Connection(StreamClass(d), d, remote[d].key))

C19_Witness ==
    /\ accepted = 2
    /\ remote[1].sent = 0
    /\ hs[1] = "read_key"
    /\ remote[2] = Remote("K2", TRUE, DataBytes, 36, FALSE)
    /\ hs[2] = "sent"
    /\ spawnLog = <<Connection("Data", 2, "K2")>>
    /\ handler[2] = "panicked"

\* The first 32 bytes of connection c have arrived and are no public key.
InvalidKey(c) == c <= accepted /\ remote[c].sent >= PUBLIC_KEY_LENGTH /\ ~remote[c].valid

\* C20 (invalid key abort): a connection whose first 32 bytes are no valid
\* key is in the read of the key, having read nothing, or has ended as
\* invalid, having read exactly the 32 bytes of the key; nothing was written
\* to it, it has submitted nothing and has no handler, whatever follows the
\* key on the stream. The step that leaves the read of the key ends the task,
\* and an ended task makes no further step.
C20_InvalidKeyAbort ==
    /\ [](\A c \in Conns : InvalidKey(c) =>
            /\ hs[c] \in {"read_key", "invalid_key"}
            /\ stream[c].read = (IF hs[c] = "invalid_key" THEN PUBLIC_KEY_LENGTH ELSE 0)
            /\ stream[c].written = 0
            /\ SubmittedOf(c) = {}
            /\ handler[c] = "none")
    /\ [][\A c \in Conns : InvalidKey(c) =>
            /\ hs'[c] # hs[c] => hs[c] = "read_key" /\ hs'[c] = "invalid_key"
            /\ hs[c] = "invalid_key" => stream'[c] = stream[c] /\ remote'[c] = remote[c]]_vars

\* C20 witness: 32 bytes that are no key, followed by CTRL, all 36 arrived;
\* the task has ended after the key and the queue is empty.
C20_Witness ==
    /\ accepted = 1
    /\ remote[1] = Remote("KX", FALSE, CtrlBytes, 36, FALSE)
    /\ hs[1] = "invalid_key"
    /\ stream[1] = [read |-> PUBLIC_KEY_LENGTH, written |-> 0]
    /\ queue = <<>>
    /\ spawnLog = <<>>

(***************************************************************************)
(* decode as a function of the codec's header and the buffer: every call   *)
(* the stream can make. The buffer holds any bytes a remote may have sent, *)
(* the codec no header or one a previous call saved (a saved header has a  *)
(* length of at least 1: a body of length 0 is never incomplete).          *)
(***************************************************************************)
MaxBuf == 5

\* Bytes that make the cases of decode: type 0 and 1, lengths 0, 1, 4, 255,
\* 1024 and up, 65535.
AnyBytes == {0, 1, 4, 255}
AnyBuffers == UNION {[1..n -> AnyBytes] : n \in 0..MaxBuf}
SavedHeaders ==
    {FrameHeader(v, t, n) : v \in {0, 255}, t \in {0, 1}, n \in {1, 3, 4, 5, 65535}}

InitDecodeAny ==
    /\ IdleAddress
    /\ IdleCore
    /\ header \in {None} \cup SavedHeaders
    /\ src \in AnyBuffers
    /\ dst = <<>>
    /\ frames = <<>>
    /\ results = <<>>
    /\ fed = Len(src) + (IF header = None THEN 0 ELSE HEADER_WIRE_SIZE)
    /\ polled = FALSE

NextDecodeAny == Decode

SpecDecodeAny == InitDecodeAny /\ [][NextDecodeAny]_vars

\* The byte counts decode takes off src in one call, in the order of the
\* code: get_u8, get_u8, get_u16 (lines 71-73) when no header was saved, then
\* nothing (line 89), or advance (line 110), or get_u32 and advance (lines
\* 117, 123), or advance (line 132). Buf::get_* and Buf::advance panic when
\* asked for more than remains; a negative count stands for a usize
\* subtraction that underflowed.
DecodeTakes(hdr, buf) ==
    IF hdr = None /\ Len(buf) < HEADER_WIRE_SIZE THEN <<>>
    ELSE
      LET head == IF hdr # None THEN <<>> ELSE <<1, 1, 2>>
          h == IF hdr # None THEN hdr ELSE ParseHeader(buf)
          b == IF hdr # None THEN buf ELSE advance(buf, HEADER_WIRE_SIZE)
      IN  IF Len(b) < h.len THEN head
          ELSE IF h._type = TYPE_PING
          THEN IF h.len < MINIMAL_PING_FRAME_SIZE
               THEN head \o <<MalformedAdvance(h.len)>>
               ELSE head \o <<4, PingAdvance(h.len)>>
          ELSE head \o <<UnknownAdvance(h.len)>>

\* Line 93: header.len as usize - src.len(), computed when the body is incomplete.
ReserveAdditional(hdr, buf) ==
    IF hdr = None /\ Len(buf) < HEADER_WIRE_SIZE THEN 0
    ELSE
      LET h == IF hdr # None THEN hdr ELSE ParseHeader(buf)
          b == IF hdr # None THEN buf ELSE advance(buf, HEADER_WIRE_SIZE)
      IN  IF Len(b) < h.len THEN h.len - Len(b) ELSE 0

RECURSIVE SumTo(_, _)
SumTo(t, i) == IF i = 0 THEN 0 ELSE SumTo(t, i - 1) + t[i]

\* C21 (decode stays in bounds): whatever header the codec holds and whatever
\* bytes the buffer holds, every read and advance of a decode call asks for
\* a count that is not negative and, with what the call took before, no more
\* than the buffer holds; the subtraction for reserve does not underflow; and
\* the buffer after the call is the buffer before it without the bytes taken.
C21_DecodeInBounds ==
    LET t == DecodeTakes(header, src) IN
    /\ \A i \in DOMAIN t : t[i] >= 0 /\ SumTo(t, i) <= Len(src)
    /\ ReserveAdditional(header, src) >= 0
    /\ decode(header, src).src = advance(src, SumTo(t, Len(t)))

\* C21 witness: decode was called on FF 00 FF FF 04; the header of length
\* 65535 is saved and the one byte of body is left in the buffer.
C21_Witness ==
    /\ polled
    /\ header = FrameHeader(255, 0, 65535)
    /\ src = <<4>>
    /\ fed = 5
    /\ results = <<>>

\* Every value of the version byte.
VersionBytes == 0..255

\* The codec's header and the buffer, with the version byte of the frame
\* decode is at replaced by v: in the saved header, or else the first byte of
\* the buffer.
WithVersion(hdr, buf, v) ==
    IF hdr # None THEN [header |-> [hdr EXCEPT !.version = v], src |-> buf]
    ELSE IF buf # <<>> THEN [header |-> hdr, src |-> [buf EXCEPT ![1] = v]]
    ELSE [header |-> hdr, src |-> buf]

\* C22 (version byte not checked): decode on the same state with any other
\* version byte returns the same value and takes the same number of bytes,
\* leaves the same bytes of the frames that follow, and saves a header
\* exactly when it did before, the same but for the version.
C22_VersionIgnored ==
    LET a == decode(header, src) IN
    \A v \in VersionBytes :
       LET w == WithVersion(header, src, v)
           b == decode(w.header, w.src)
       IN  /\ b.ret = a.ret
           /\ Len(b.src) = Len(a.src)
           /\ (Len(a.src) < Len(src) \/ header # None) => b.src = a.src
           /\ IF a.header = None THEN b.header = None
              ELSE b.header = [a.header EXCEPT !.version = v]

\* C22 witness: decode was called on FF 00 00 04 01, a ping frame of version
\* 255 with the first byte of its id; the header is saved, not rejected.
C22_Witness ==
    /\ polled
    /\ header = FrameHeader(255, 0, 4)
    /\ src = <<1>>
    /\ fed = 5
    /\ results = <<>>

\* A call of encode: a frame made by encode joins the frames written.
EncodeStep == Len(frames') = Len(frames) + 1 /\ frames'[Len(frames')].enc

\* C23 (encode leaves decode state untouched): a call of encode changes
\* neither the saved header nor the decode buffer nor what was decoded so
\* far, appends to the bytes already written and leaves the next decode call
\* with the same outcome; and a saved header is at any time the header of the
\* frame being decoded, however many frames were encoded since it was saved.
C23_EncodeKeepsHeader ==
    /\ [][EncodeStep =>
            /\ header' = header
            /\ src' = src
            /\ results' = results
            /\ fed' = fed
            /\ SubSeq(dst', 1, Len(dst)) = dst
            /\ decode(header', src') = decode(header, src)]_vars
    /\ [](header # None =>
            /\ Len(results) < Len(frames)
            /\ LET f == frames[Len(results) + 1] IN
               /\ header = FrameHeader(f.version, f._type, f.len)
               /\ Len(src) = fed - Cum(Len(results)) - HEADER_WIRE_SIZE)

\* C23 witness: a raw frame of length 3 has its header saved and one byte of
\* its body in the buffer, and two frames have been encoded behind it.
C23_Witness ==
    /\ header = FrameHeader(1, 1, 3)
    /\ src = <<0>>
    /\ fed = 5
    /\ results = <<>>
    /\ Len(frames) = 2
    /\ ~frames[1].enc
    /\ frames[2].enc
    /\ Len(dst) = 10

\* C24 (the two derivations agree): for every key, in either build, once
\* both have been called Peer::address and PublicKey::address have come to
\* the same: the same 16 bytes returned, or, on the all-zero key in a build
\* with overflow checks, the same panic (the overflow of C6); and on every
\* key with a zero run of up to 255 bits both return.
C24_AddressesAgree ==
    (addr # NotCalled /\ peer_addr # NotCalled) =>
        /\ peer_addr = addr
        /\ peer_addr = address(key, overflowChecks)
        /\ addr = peer_address(key, overflowChecks)
        /\ (LeadingOnes(key) < 256 \/ ~overflowChecks) =>
              /\ peer_addr.status = "Returned"
              /\ Len(peer_addr.bytes) = 16

\* C24 witness: both were called on the key of 255 zero bits and a one bit,
\* and both returned 02 FF 00 ... 00.
C24_Witness ==
    /\ key = ZeroRunKey(255, 0)
    /\ addr = Returned(<<2, 255>> \o [j \in 1..14 |-> 0])
    /\ peer_addr = addr

====
